---- MODULE Spec2Model ----
(***************************************************************************)
(* The comment board (/api/comments) and the login throttle (/api/login)   *)
(* of the neapolitan repository, over Cloudflare KV.                       *)
(*                                                                         *)
(* The repository holds several drafts of each handler.  Every draft is    *)
(* modelled; the variable `variant` says which draft of /api/comments is   *)
(* deployed and `loginVariant` which draft of /api/login:                  *)
(*   comments_js  functions/api/comments.js                                *)
(*   p1_first     part_001 lines 8-107    (renumbering delete)             *)
(*   p1_who       part_001 lines 125-254  (time-derived ids, who:<id>)     *)
(*   p1_paged     part_001 lines 259-384  (paginated, hot:<hash> cooldown) *)
(*   p2_compact   part_002                (copying compaction)             *)
(*   p3_admin     part_003 lines 4-104    (operator may post unlimited)    *)
(*   login_js     functions/api/login.js                                   *)
(*   p3_login     part_003 lines 129-207                                   *)
(*   p4_login     part_004                                                 *)
(* One action is one whole handler invocation (requests handled one at a   *)
(* time).                                                                  *)
(***************************************************************************)
EXTENDS Integers, Sequences, FiniteSets, TLC

\* ------------------------------------------------------------------ bounds
\* Date.now() is read at most MaxNow times (one reading per stored comment)
MaxNow == 3
\* the index lengths that the pagination specification lists
MaxTotal == 45
\* the login clock runs for MaxHours hours
MaxHours == 26
\* milliseconds between a handler's Date.now() and the store's receipt of the
\* put that follows it (a key written with a TTL outlives now + TTL by it)
PutLag == 1

\* ------------------------------------------------------- sequences helpers
Range(s) == { s[i] : i \in DOMAIN s }

\* length of the longest prefix of s whose characters all satisfy the test
\* "is in the set cs"
PrefixIn(s, cs) ==
  LET out == { i \in DOMAIN s : s[i] \notin cs }
  IN  IF out = {} THEN Len(s) ELSE (CHOOSE i \in out : \A j \in out : i <= j) - 1

Drop(s, n) == SubSeq(s, n + 1, Len(s))
Take(s, n) == SubSeq(s, 1, IF n < Len(s) THEN n ELSE Len(s))

RECURSIVE SelectSeqBy(_, _)
\* the subsequence of s whose elements are not in the set drop
SelectSeqBy(s, drop) ==
  LET d == PrefixIn(s, drop)
      k == PrefixIn(Drop(s, d), Range(s) \ drop)
  IN  IF s = <<>> THEN <<>>
      ELSE SubSeq(s, d + 1, d + k) \o SelectSeqBy(Drop(s, d + k), drop)

MaxOf(S) == CHOOSE m \in S : \A x \in S : x <= m
MinOf(S) == CHOOSE m \in S : \A x \in S : m <= x

\* Array.prototype.indexOf, 1-based; 0 when absent
IndexOf(s, x) ==
  IF x \in Range(s) THEN CHOOSE i \in DOMAIN s : s[i] = x /\ \A j \in 1..(i-1) : s[j] # x
  ELSE 0

\* Array.prototype.splice(pos, 1) with a 1-based pos
RemoveLast(s, pos) == SubSeq(s, 1, Len(s) - 1)
RemoveAt(s, pos) == [i \in 1..(Len(s) - 1) |-> IF i < pos THEN s[i] ELSE s[i + 1]]

\* Array.prototype.slice(start, end) with 0-based start and end >= 0
Slice(s, start, end) ==
  LET lo == start + 1
      hi == IF end < Len(s) THEN end ELSE Len(s)
  IN  IF lo > hi THEN <<>> ELSE [i \in 1..(hi - lo + 1) |-> s[lo + i - 1]]

\* KV get/put/delete on a function whose domain is the set of stored keys
Has(kv, k) == k \in DOMAIN kv
Put(kv, k, v) == [x \in DOMAIN kv \cup {k} |-> IF x = k THEN v ELSE kv[x]]
Del(kv, k) == [x \in DOMAIN kv \ {k} |-> kv[x]]

\* ------------------------------------------------------------- characters
\* A text is a sequence of characters; the characters that the handlers
\* treat differently are named:
\*   "SP" space, "TAB", "LF", "CR", "NUL" (a control character other than
\*   TAB/LF/CR), "ZW" (U+200B), "BOM" (U+FEFF), "HAN" (a CJK ideograph);
\*   every other character is an ordinary letter.
\* The elements are UTF-16 code units, as in a JavaScript string: "HI", "LO"
\* are the two halves of one character outside the basic plane (U+1F600).
\* NoText is a body without a string `text` (unparsable body, missing field)
NoText == <<"undefined">>

\* /[\u0000-\u001F\u007F]/
IsControl(c) == c \in {"NUL", "TAB", "LF", "CR"}
\* /[\u200B-\u200D\uFEFF]/
IsZeroWidth(c) == c \in {"ZW", "BOM"}
\* JavaScript white space (\s, String.prototype.trim)
IsSpace(c) == c \in {"SP", "TAB", "LF", "CR", "BOM"}

RECURSIVE TrimLeft(_)
TrimLeft(s) == IF s # <<>> /\ IsSpace(Head(s)) THEN TrimLeft(Tail(s)) ELSE s

RECURSIVE TrimRight(_)
TrimRight(s) ==
  IF s # <<>> /\ IsSpace(s[Len(s)]) THEN TrimRight(SubSeq(s, 1, Len(s) - 1)) ELSE s

\* (mutant) nothing is trimmed
TrimNothing(s) == s

\* String.prototype.trim
Trim(s) == TrimRight(TrimLeft(s))

Repeat(c, n) == [i \in 1..n |-> c]

\* ------------------------------------------------- comments.js sanitizeText
MAX_LEN == 300
MAX_LINES == 12
MAX_PER_LINE == 120
\* s.slice(0, MAX_LEN + 50)
SLACK == 50
\* /(\S)\1{19,}/ : a run of RUN_MAX or more equal characters becomes RUN_MAX
RUN_MAX == 20

\* s.replace(/\r\n?/g, "\n")
RECURSIVE NormalizeNewlines(_)
NormalizeNewlines(s) ==
  LET n == PrefixIn(s, Range(s) \ {"CR"})
  IN  IF n = Len(s) THEN s
      ELSE IF Len(s) >= n + 2 /\ s[n + 2] = "LF"
           THEN Take(s, n) \o <<"LF">> \o NormalizeNewlines(Drop(s, n + 2))
           ELSE Take(s, n) \o <<"LF">> \o NormalizeNewlines(Drop(s, n + 1))

\* s.replace(/[ \t]{3,}/g, "  ")
RECURSIVE CollapseBlanks(_)
CollapseBlanks(s) ==
  IF s = <<>> THEN <<>>
  ELSE LET n == PrefixIn(s, {"SP", "TAB"})
           m == PrefixIn(s, Range(s) \ {"SP", "TAB"})
       IN  IF n >= 3 THEN <<"SP", "SP">> \o CollapseBlanks(Drop(s, n))
           ELSE IF n >= 1 THEN Take(s, n) \o CollapseBlanks(Drop(s, n))
           ELSE Take(s, m) \o CollapseBlanks(Drop(s, m))

\* s[i] follows RUN_MAX or more copies of itself
PastRun(s, i) == \A k \in 1..RUN_MAX : i - k >= 1 /\ s[i - k] = s[i]

\* s.replace(/(\S)\1{19,}/g, (m, c) => c.repeat(20)): of a run of RUN_MAX or
\* more copies of a character that is not white space, the first RUN_MAX stay
CollapseRuns(s) ==
  SelectSeqBy([i \in DOMAIN s |-> IF ~IsSpace(s[i]) /\ PastRun(s, i) THEN "DEL" ELSE s[i]],
              {"DEL"})

\* s.split("\n")
RECURSIVE SplitLines(_)
SplitLines(s) ==
  LET n == PrefixIn(s, { c \in Range(s) : c # "LF" })
  IN  IF n = Len(s) THEN <<s>>
      ELSE <<Take(s, n)>> \o SplitLines(Drop(s, n + 1))

\* lines.join("\n")
RECURSIVE JoinLines(_)
JoinLines(ls) ==
  IF ls = <<>> THEN <<>>
  ELSE IF Len(ls) = 1 THEN ls[1]
  ELSE ls[1] \o <<"LF">> \o JoinLines(Tail(ls))

sanitizeText(input) ==
  LET s0 == IF input = NoText THEN <<>> ELSE input
      s1 == SelectSeqBy(s0, { c \in Range(s0) : IsControl(c) })
      s2 == SelectSeqBy(s1, { c \in Range(s1) : IsZeroWidth(c) })
      s3 == NormalizeNewlines(s2)
      s4 == CollapseBlanks(s3)
      s5 == CollapseRuns(s4)
      s6 == Take(s5, MAX_LEN + SLACK)
      l0 == Take(SplitLines(s6), MAX_LINES)
      l1 == [i \in DOMAIN l0 |-> Take(l0[i], MAX_PER_LINE)]
      s7 == Trim(JoinLines(l1))
  IN  IF Len(s7) > MAX_LEN THEN Trim(Take(s7, MAX_LEN)) ELSE s7

\* part_001 lines 312-318: String(body.text || "") with zero-width characters
\* removed, /\s{3,}/ replaced by one space, trimmed
RECURSIVE CollapseSpaces(_)
CollapseSpaces(s) ==
  IF s = <<>> THEN <<>>
  ELSE LET n == PrefixIn(s, {"SP", "TAB", "LF", "CR", "BOM"})
           m == PrefixIn(s, Range(s) \ {"SP", "TAB", "LF", "CR", "BOM"})
       IN  IF n >= 3 THEN <<"SP">> \o CollapseSpaces(Drop(s, n))
           ELSE IF n >= 1 THEN Take(s, n) \o CollapseSpaces(Drop(s, n))
           ELSE Take(s, m) \o CollapseSpaces(Drop(s, m))

pagedClean(input) ==
  LET s0 == IF input = NoText THEN <<>> ELSE input
  IN  Trim(CollapseSpaces(SelectSeqBy(s0, { c \in Range(s0) : IsZeroWidth(c) })))

\* part_001 line 327: text.replace(/(.)\1{20,}/g, (m, ch) => ch.repeat(20));
\* "." matches every character but a line terminator
\* of a run of RUN_MAX + 1 or more copies the first RUN_MAX stay
pagedCollapse(s) ==
  SelectSeqBy([i \in DOMAIN s |-> IF s[i] \notin {"LF", "CR"} /\ PastRun(s, i) THEN "DEL" ELSE s[i]],
              {"DEL"})

\* part_001 lines 330-331: more than 60% CJK ideographs
tooMuchHanja(s) ==
  Len(s) > 0 /\ 10 * Len(SelectSeqBy(s, Range(s) \ {"HAN"})) > 6 * Len(s)

\* (body.text || "").toString().trim()  -- part_001 first/who, part_002, part_003
trimText(input) == IF input = NoText THEN <<>> ELSE Trim(input)

\* ------------------------------------------------------------------ state
VARIABLES
  variant,        \* which draft of /api/comments is deployed
  ownerPassword,  \* env.OWNER_PASSWORD
  kvIdx,          \* COMMENTS "idx" ("order" in part_002): the sequence of ids
  kvC,            \* COMMENTS "c:<id>": id -> record
  kvBy,           \* COMMENTS "by:<hash>": hash -> claim
  kvWho,          \* COMMENTS "who:<id>": id -> hash
  kvHot,          \* COMMENTS "hot:<hash>": hash -> cooldown mark
  now,            \* the last reading of Date.now() by /api/comments
  resp,           \* the last request to /api/comments and its response
  deleted,        \* a DELETE has succeeded
  loginVariant,   \* which draft of /api/login is deployed
  attempts,       \* ATTEMPTS: key -> [val, exp] (exp: when the key expires, ms)
  clock,          \* Date.now() of /api/login, ms
  lresp,          \* the last request to /api/login and its response
  streak,         \* ip -> failed logins in a row since the ip was clean
  calls           \* the calls whose store reads and writes interleave

store == <<kvIdx, kvC, kvBy, kvWho, kvHot>>
ledgerVars == <<variant, ownerPassword, kvIdx, kvC, kvBy, kvWho, kvHot, now, resp, deleted>>
loginVars == <<loginVariant, attempts, clock, lresp, streak>>
vars == <<ledgerVars, loginVars, calls>>

Variants == {"comments_js", "p1_first", "p1_who", "p1_paged", "p2_compact", "p3_admin"}

\* env.OWNER_PASSWORD: not configured, configured empty, configured
Unset == "<unset>"
OwnerConfigs == {Unset, "", "owner"}
\* const { OWNER_PASSWORD = "" } = env
OwnerOrEmpty == IF ownerPassword = Unset THEN "" ELSE ownerPassword
\* "Bearer " + env.OWNER_PASSWORD
OwnerAsString == IF ownerPassword = Unset THEN "undefined" ELSE ownerPassword

\* the Authorization header: absent, or "Bearer <token>"
NoHeader == "<none>"
AuthzHeaders == {NoHeader, "owner", "bad"}
\* (request.headers.get("Authorization") || "").replace(/^Bearer\s+/i, "")
BearerToken(authz) == IF authz = NoHeader THEN "" ELSE authz

\* client addresses; 0: no cf-connecting-ip header, hashed as "0.0.0.0"
Clients == {0, 1}
\* sha256(`${SECRET_SALT}|${ip}`), an opaque equality key
ipHash(ip) == <<"sha256", ip>>
\* the author recorded for a comment posted with the operator token
Operator == <<"operator">>

RawTexts == { NoText, <<"a">>, <<"ZW", "b", "SP">> }
\* the text that client ip submits
textOf(ip) == IF ip % 2 = 0 THEN <<"a">> ELSE <<"ZW", "b", "SP">>

\* expirationTtl: 60 * 60 * 24 * 365
YEAR_TTL == 31536000
\* expirationTtl: 10
HOT_TTL == 10

Rec(id, by, text, ts, au) == [id |-> id, by |-> by, text |-> text, ts |-> ts, au |-> au]
Claim(val, ttl) == [val |-> val, ttl |-> ttl]

\* ------------------------------------------- query parameters (JS numbers)
NaN == [nan |-> TRUE, v |-> 0]
Num(v) == [nan |-> FALSE, v |-> v]
Absent == [kind |-> "absent", v |-> 0]
Garbage == [kind |-> "nan", v |-> 0]
IntParam(v) == [kind |-> "int", v |-> v]
\* parseInt(url.searchParams.get(name) || dflt, 10)
parseParam(p, dflt) ==
  IF p.kind = "absent" THEN Num(dflt) ELSE IF p.kind = "nan" THEN NaN ELSE Num(p.v)
\* Math.max(a, x) and Math.min(a, x) for an integer a
MathMax(a, x) == IF x.nan THEN NaN ELSE Num(IF x.v > a THEN x.v ELSE a)
MathMin(a, x) == IF x.nan THEN NaN ELSE Num(IF x.v < a THEN x.v ELSE a)
\* Math.ceil(total / limit) for limit >= 1
CeilDiv(total, limit) == (total + limit - 1) \div limit

\* a response that wrote nothing
Reject(code) ==
  [code |-> code, idx |-> kvIdx, c |-> kvC, by |-> kvBy, who |-> kvWho, hot |-> kvHot,
   id |-> 0, read |-> FALSE, au |-> <<>>]

NoResp == [op |-> "none"]

\* POST: the client address, whether the Cookie header holds auth=ok, the
\* Authorization header, whether Content-Type is application/json, body.text
\* (a client sends its own text, or a body without text)
PostReqs ==
  { r \in [ip : Clients, cookie : BOOLEAN, authz : AuthzHeaders, json : BOOLEAN,
            text : RawTexts] : r.text \in {NoText, textOf(r.ip)} }
\* the drafts that read neither Authorization nor Content-Type on POST
PlainPostReqs == { r \in PostReqs : r.authz = NoHeader /\ r.json }
\* DELETE: the Authorization header, body.id (0: missing or not a number),
\* body.admin (read by p1_who alone)
DeleteReqs == [authz : AuthzHeaders, id : 0..MaxNow, admin : {""}]
\* p1_first compares the header with "Bearer " + env.OWNER_PASSWORD
FirstDeleteReqs == [authz : AuthzHeaders \cup {"undefined"}, id : 0..MaxNow, admin : {""}]
WhoDeleteReqs == [authz : {NoHeader}, id : 0..MaxNow, admin : {"", "owner", "bad"}]
\* GET: ?page= and ?limit= (read by the paginated drafts), the client address
\* (read by p1_who)
GetReqs == [page : {Absent, IntParam(2)}, limit : {Absent}, ip : {0}]
WhoGetReqs == [page : {Absent}, limit : {Absent}, ip : Clients]
PlainGetReqs == [page : {Absent}, limit : {Absent}, ip : {0}]

\* the Authorization header carries the configured operator password
isAdminToken(authz) == OwnerOrEmpty # "" /\ BearerToken(authz) = OwnerOrEmpty

\* the store after a POST, with the clock advanced when Date.now() was read
ApplyPost(req, r, clean) ==
  /\ r.read => now < MaxNow
  /\ kvIdx' = r.idx /\ kvC' = r.c /\ kvBy' = r.by /\ kvWho' = r.who /\ kvHot' = r.hot
  /\ now' = IF r.read THEN now + 1 ELSE now
  /\ resp' = [op |-> "POST", ip |-> req.ip, cookie |-> req.cookie, json |-> req.json,
               authz |-> req.authz, admin |-> isAdminToken(req.authz), blank |-> clean = <<>>,
               text |-> req.text,
               code |-> r.code, id |-> r.id]
  /\ UNCHANGED <<variant, ownerPassword, deleted, loginVars, calls>>

ApplyDelete(req, r) ==
  /\ kvIdx' = r.idx /\ kvC' = r.c /\ kvBy' = r.by /\ kvWho' = r.who /\ kvHot' = r.hot
  /\ resp' = [op |-> "DELETE", req |-> req, code |-> r.code, id |-> r.id, au |-> r.au]
  /\ deleted' = (deleted \/ r.code = "ok")
  /\ UNCHANGED <<variant, ownerPassword, now, loginVars, calls>>

DEFAULT_PAGE == 1
DEFAULT_LIMIT == 20
LIMIT_CAP == 50

\* (mutant) the page is not held to totalPages
pageOfUnclamped(pageParam, limitParam, total) ==
  LET page == MathMax(1, parseParam(pageParam, DEFAULT_PAGE))
      limit == MathMin(LIMIT_CAP, MathMax(1, parseParam(limitParam, DEFAULT_LIMIT)))
  IN  [page |-> page, limit |-> limit,
       start |-> IF page.nan \/ limit.nan THEN 0 ELSE (page.v - 1) * limit.v,
       end |-> IF page.nan \/ limit.nan THEN 0 ELSE page.v * limit.v]

\* comments.js lines 58-68 (part_001 lines 285-295): the page that is served
pageOf(pageParam, limitParam, total) ==
  LET page == MathMax(1, parseParam(pageParam, DEFAULT_PAGE))
      limit == MathMin(LIMIT_CAP, MathMax(1, parseParam(limitParam, DEFAULT_LIMIT)))
      totalPages == IF limit.nan THEN NaN ELSE Num(IF CeilDiv(total, limit.v) > 1
                                                   THEN CeilDiv(total, limit.v) ELSE 1)
      curPage == IF page.nan \/ totalPages.nan THEN NaN ELSE MathMin(totalPages.v, page)
  IN  [page |-> curPage, limit |-> limit,
       start |-> IF curPage.nan \/ limit.nan THEN 0 ELSE (curPage.v - 1) * limit.v,
       end |-> IF curPage.nan \/ limit.nan THEN 0 ELSE curPage.v * limit.v]

\* values of c:<id> that no handler wrote: text that is not JSON (a truncated
\* record), and the JSON text of a number
NotJson == [raw |-> "{"]
JsonNumber == [raw |-> "5"]
Null == [null |-> TRUE]
\* comments.js lines 52-54: JSON.parse, null when it throws (a record the
\* handlers wrote is kept in the store as the object it parses to)
safeParse(str) == IF str = NotJson THEN Null ELSE str

\* the records of the ids of slice that are stored and parse, in slice order
RECURSIVE resolve(_, _)
resolve(slice, c) ==
  IF slice = <<>> THEN <<>>
  ELSE IF Has(c, Head(slice)) /\ safeParse(c[Head(slice)]) # Null
       THEN <<safeParse(c[Head(slice)])>> \o resolve(Tail(slice), c)
       ELSE resolve(Tail(slice), c)

\* the loop over slice throws: in comments.js at line 76, the assignment of
\* obj.text to a parsed value that is not an object (module code is strict);
\* in part_001 at line 300, JSON.parse of a text that is not JSON
throws(slice, c) ==
  \E i \in DOMAIN slice :
    /\ Has(c, slice[i])
    /\ c[slice[i]] = (IF variant = "p1_paged" THEN NotJson ELSE JsonNumber)

\* comments.js lines 57-81, part_001 lines 284-304
listPaged(pageParam, limitParam) ==
  LET pg == pageOf(pageParam, limitParam, Len(kvIdx))
      slice == Slice(kvIdx, pg.start, pg.end)
  IN  [op |-> "GET", req |-> [page |-> pageParam, limit |-> limitParam],
       total |-> Len(kvIdx), page |-> pg.page, limit |-> pg.limit,
       threw |-> throws(slice, kvC),
       items |-> IF throws(slice, kvC) THEN <<>> ELSE resolve(slice, kvC)]

ApplyGet(r) ==
  /\ resp' = r
  /\ UNCHANGED <<variant, ownerPassword, kvIdx, kvC, kvBy, kvWho, kvHot, now, deleted, loginVars, calls>>

\* the identity that wrote the stored comment id (<<>> when none is stored)
authorOf(c, id) == IF Has(c, id) /\ "au" \in DOMAIN c[id] THEN c[id].au ELSE <<>>

\* ------------------------------------------ comments.js (functions/api)
\* (mutant) the id is the length of the index plus one
nextIdByLength(idx) == Len(idx) + 1

\* (mutant) the first id is 0
nextIdFromZero(idx) == IF Len(idx) > 0 THEN MaxOf(Range(idx)) + 1 ELSE 0

\* lines 99-101
nextIdFinal(idx) == IF Len(idx) > 0 THEN MaxOf(Range(idx)) + 1 ELSE 1

\* (mutant) the forward claim is not looked up
usedNever(by, who) == FALSE

\* lines 94-97: the forward claim of the caller is stored
used(by, who) == Has(by, who)

\* lines 84-113
postFinal(req) ==
  LET text == sanitizeText(req.text)
      who == ipHash(req.ip)
      nextId == nextIdFinal(kvIdx)
      item == Rec(nextId, nextId, text, now + 1, who)
  IN  IF ~req.json THEN Reject("InvalidContentType")
      ELSE IF text = <<>> THEN Reject("EmptyContent")
      ELSE IF Len(text) > MAX_LEN THEN Reject("TooLong")
      ELSE IF used(kvBy, who) THEN Reject("DuplicateSubmission")
      ELSE [code |-> "ok", idx |-> Append(kvIdx, nextId), c |-> Put(kvC, nextId, item),
            by |-> Put(kvBy, who, Claim(nextId, YEAR_TTL)), who |-> kvWho, hot |-> kvHot,
            id |-> nextId, read |-> TRUE, au |-> who]

\* (mutant) a request without a token passes
forbiddenUnlessEmpty(authz) == BearerToken(authz) # "" /\ BearerToken(authz) # OwnerOrEmpty

\* lines 116-120: the operator's token is required
forbiddenFinal(authz) == OwnerOrEmpty = "" \/ BearerToken(authz) # OwnerOrEmpty

\* lines 116-136
deleteFinal(req) ==
  LET pos == IndexOf(kvIdx, req.id)
  IN  IF forbiddenFinal(req.authz) THEN Reject("Forbidden")
      ELSE IF req.id = 0 THEN Reject("InvalidId")
      ELSE IF pos = 0 THEN Reject("NotFound")
      ELSE [code |-> "ok", idx |-> RemoveAt(kvIdx, pos), c |-> Del(kvC, req.id),
            by |-> kvBy, who |-> kvWho, hot |-> kvHot, id |-> req.id, read |-> FALSE,
            au |-> authorOf(kvC, req.id)]

FinalGet ==
  variant = "comments_js" /\ \E req \in GetReqs : ApplyGet(listPaged(req.page, req.limit))
FinalPost ==
  variant = "comments_js"
  /\ \E req \in { r \in PostReqs : r.authz = NoHeader } : ApplyPost(req, postFinal(req), sanitizeText(req.text))
FinalDelete ==
  variant = "comments_js" /\ \E req \in DeleteReqs : ApplyDelete(req, deleteFinal(req))

\* -------------------------------------------- p1_first (part_001 8-107)
\* lines 36-67
postFirst(req) ==
  LET text == trimText(req.text)
      who == ipHash(req.ip)
      newId == Len(kvIdx) + 1
      entry == Rec(newId, newId, text, now + 1, who)
  IN  IF text = <<>> THEN Reject("EmptyContent")
      ELSE IF used(kvBy, who) THEN Reject("DuplicateSubmission")
      ELSE [code |-> "ok", idx |-> Append(kvIdx, newId), c |-> Put(kvC, newId, entry),
            by |-> Put(kvBy, who, Claim(newId, 0)), who |-> kvWho, hot |-> kvHot,
            id |-> newId, read |-> TRUE, au |-> who]

\* lines 85-94: the stored comments of idx, each given its position as id
RECURSIVE renumberFrom(_, _, _)
renumberFrom(idx, k, c) ==
  IF k > Len(idx) THEN <<>>
  ELSE IF Has(c, idx[k])
       THEN <<[c[idx[k]] EXCEPT !.id = k, !.by = k]>> \o renumberFrom(idx, k + 1, c)
       ELSE renumberFrom(idx, k + 1, c)

\* lines 99-101
RECURSIVE putAll(_, _)
putAll(c, recs) == IF recs = <<>> THEN c ELSE putAll(Put(c, Head(recs).id, Head(recs)), Tail(recs))

\* lines 70-74: auth !== "Bearer " + env.OWNER_PASSWORD
forbiddenFirst(authz) == authz = NoHeader \/ authz # OwnerAsString

\* lines 69-104
deleteFirst(req) ==
  LET idx == SelectSeqBy(kvIdx, {req.id})
      comments == renumberFrom(idx, 1, kvC)
  IN  IF forbiddenFirst(req.authz) THEN Reject("Forbidden")
      ELSE IF req.id = 0 THEN Reject("InvalidId")
      ELSE [code |-> "ok", idx |-> [i \in DOMAIN comments |-> comments[i].id],
            c |-> putAll(kvC, comments), by |-> kvBy, who |-> kvWho, hot |-> kvHot,
            id |-> req.id, read |-> FALSE, au |-> authorOf(kvC, req.id)]

\* lines 23-33
listFirst == [op |-> "GET", items |-> resolve(kvIdx, kvC)]

FirstGet == variant = "p1_first" /\ \E req \in PlainGetReqs : ApplyGet(listFirst)
FirstPost ==
  variant = "p1_first"
  /\ \E req \in PlainPostReqs : ApplyPost(req, postFirst(req), trimText(req.text))
FirstDelete ==
  variant = "p1_first" /\ \E req \in FirstDeleteReqs : ApplyDelete(req, deleteFirst(req))

\* --------------------------------------------- p1_who (part_001 125-254)
\* lines 167-212; the id `${Date.now()}-${random}` is modelled by the reading
postWho(req) ==
  LET t == trimText(req.text)
      h == ipHash(req.ip)
      id == now + 1
      item == Rec(id, 0, t, now + 1, h)
  IN  IF ~req.cookie THEN Reject("Unauthenticated")
      ELSE IF t = <<>> THEN Reject("EmptyContent")
      ELSE IF Len(t) > MAX_LEN THEN Reject("TooLong")
      ELSE IF used(kvBy, h) THEN Reject("DuplicateSubmission")
      ELSE [code |-> "ok", idx |-> Append(kvIdx, id), c |-> Put(kvC, id, item),
            by |-> Put(kvBy, h, Claim(id, 0)), who |-> Put(kvWho, id, h), hot |-> kvHot,
            id |-> id, read |-> TRUE, au |-> h]

\* (mutant) the forward claim is kept
releaseWhoKeeps(by, who, id) == by

\* lines 243-245: the forward claim of the author of id is released
releaseWho(by, who, id) == IF Has(who, id) THEN Del(by, who[id]) ELSE by

\* lines 215-251
deleteWho(req) ==
  LET pos == IndexOf(kvIdx, req.id)
  IN  IF req.id = 0 \/ req.admin = "" THEN Reject("InvalidId")
      ELSE IF req.admin # ownerPassword THEN Reject("Forbidden")
      ELSE IF pos = 0 THEN Reject("NotFound")
      ELSE [code |-> "ok", idx |-> RemoveAt(kvIdx, pos), c |-> Del(kvC, req.id),
            by |-> releaseWho(kvBy, kvWho, req.id), who |-> Del(kvWho, req.id),
            hot |-> kvHot, id |-> req.id, read |-> FALSE, au |-> authorOf(kvC, req.id)]

\* lines 155-159: the stored comments with their position n in the index
RECURSIVE numbered(_, _, _)
numbered(idx, i, c) ==
  IF i > Len(idx) THEN <<>>
  ELSE IF Has(c, idx[i])
       THEN <<[id |-> c[idx[i]].id, by |-> 0, text |-> c[idx[i]].text, ts |-> c[idx[i]].ts,
               au |-> c[idx[i]].au, n |-> i]>> \o numbered(idx, i + 1, c)
       ELSE numbered(idx, i + 1, c)

\* lines 151-165
listWho(req) ==
  [op |-> "GET", items |-> numbered(kvIdx, 1, kvC), already |-> Has(kvBy, ipHash(req.ip))]

WhoGet == variant = "p1_who" /\ \E req \in WhoGetReqs : ApplyGet(listWho(req))
WhoPost == variant = "p1_who" /\ \E req \in PlainPostReqs : ApplyPost(req, postWho(req), trimText(req.text))
WhoDelete ==
  variant = "p1_who" /\ \E req \in WhoDeleteReqs : ApplyDelete(req, deleteWho(req))

\* ------------------------------------------- p1_paged (part_001 259-384)
\* lines 307-360
postPaged(req) ==
  LET t0 == pagedClean(req.text)
      text == pagedCollapse(t0)
      who == ipHash(req.ip)
      nextId == nextIdFinal(kvIdx)
      item == Rec(nextId, nextId, text, now + 1, who)
  IN  IF ~req.json THEN Reject("InvalidContentType")
      ELSE IF t0 = <<>> THEN Reject("EmptyContent")
      ELSE IF Len(t0) > MAX_LEN THEN Reject("TooLong")
      ELSE IF tooMuchHanja(text) THEN Reject("Spam")
      ELSE IF used(kvBy, who) THEN Reject("DuplicateSubmission")
      ELSE IF Has(kvHot, who) THEN Reject("RateLimited")
      ELSE [code |-> "ok", idx |-> Append(kvIdx, nextId), c |-> Put(kvC, nextId, item),
            by |-> Put(kvBy, who, Claim(nextId, YEAR_TTL)), who |-> kvWho,
            hot |-> Put(kvHot, who, Claim(1, HOT_TTL)),
            id |-> nextId, read |-> TRUE, au |-> who]

\* lines 363-381
deletePaged(req) ==
  LET pos == IndexOf(kvIdx, req.id)
  IN  IF OwnerOrEmpty = "" \/ BearerToken(req.authz) # OwnerOrEmpty THEN Reject("Forbidden")
      ELSE IF req.id = 0 THEN Reject("InvalidId")
      ELSE IF pos = 0 THEN Reject("NotFound")
      ELSE [code |-> "ok", idx |-> RemoveAt(kvIdx, pos), c |-> Del(kvC, req.id),
            by |-> kvBy, who |-> kvWho, hot |-> kvHot, id |-> req.id, read |-> FALSE,
            au |-> authorOf(kvC, req.id)]

PagedGet ==
  variant = "p1_paged" /\ \E req \in GetReqs : ApplyGet(listPaged(req.page, req.limit))
PagedPost ==
  variant = "p1_paged"
  /\ \E req \in { r \in PostReqs : r.authz = NoHeader } : ApplyPost(req, postPaged(req), pagedClean(req.text))
PagedDelete ==
  variant = "p1_paged" /\ \E req \in DeleteReqs : ApplyDelete(req, deletePaged(req))

\* ------------------------------------------------- p2_compact (part_002)
\* raw.length > 400
COMPACT_MAX_LEN == 400

\* lines 76-107; the record stored is { text, ts }
postCompact(req) ==
  LET raw == trimText(req.text)
      ipH == ipHash(req.ip)
      newId == Len(kvIdx) + 1
  IN  IF ~req.cookie THEN Reject("Unauthenticated")
      ELSE IF raw = <<>> THEN Reject("EmptyContent")
      ELSE IF Len(raw) > COMPACT_MAX_LEN THEN Reject("TooLong")
      ELSE IF used(kvBy, ipH) THEN Reject("DuplicateSubmission")
      ELSE [code |-> "ok", idx |-> Append(kvIdx, newId),
            c |-> Put(kvC, newId, Rec(0, 0, raw, now + 1, ipH)),
            by |-> Put(kvBy, ipH, Claim(1, 0)), who |-> kvWho, hot |-> kvHot,
            id |-> newId, read |-> TRUE, au |-> ipH]

\* lines 133-142: copy remaining[i] to i, then delete the source
RECURSIVE compactLoop(_, _, _)
compactLoop(c, remaining, i) ==
  IF i > Len(remaining) THEN c
  ELSE LET targetId == i
           srcId == remaining[i]
       IN  IF srcId = targetId THEN compactLoop(c, remaining, i + 1)
           ELSE IF Has(c, srcId)
                THEN compactLoop(Del(Put(c, targetId, c[srcId]), srcId), remaining, i + 1)
                ELSE compactLoop(c, remaining, i + 1)

\* (mutant) the clean-up starts one record too early
cleanupFromLast(c, newCount, oldCount) == [k \in DOMAIN c \ (newCount..oldCount) |-> c[k]]

\* lines 145-149: delete the records newCount+1 .. order.length
cleanup(c, newCount, oldCount) == [k \in DOMAIN c \ ((newCount + 1)..oldCount) |-> c[k]]

\* lines 109-115
forbiddenCompact(authz) == BearerToken(authz) = "" \/ BearerToken(authz) # OwnerOrEmpty

\* lines 109-155
deleteCompact(req) ==
  LET remaining == SelectSeqBy(kvIdx, {req.id})
      newCount == Len(remaining)
  IN  IF forbiddenCompact(req.authz) THEN Reject("Forbidden")
      ELSE IF req.id = 0 THEN Reject("InvalidId")
      ELSE IF IndexOf(kvIdx, req.id) = 0 THEN Reject("NotFound")
      ELSE [code |-> "ok", idx |-> [i \in 1..newCount |-> i],
            c |-> cleanup(compactLoop(kvC, remaining, 1), newCount, Len(kvIdx)),
            by |-> kvBy, who |-> kvWho, hot |-> kvHot, id |-> req.id, read |-> FALSE,
            au |-> authorOf(kvC, req.id)]

\* lines 66-74: { id, by: `탈출자 ${id}`, text, ts } for every stored id of order
RECURSIVE labelled(_, _)
labelled(order, c) ==
  IF order = <<>> THEN <<>>
  ELSE IF Has(c, Head(order))
       THEN <<Rec(Head(order), Head(order), c[Head(order)].text, c[Head(order)].ts,
                  c[Head(order)].au)>> \o labelled(Tail(order), c)
       ELSE labelled(Tail(order), c)

listCompact == [op |-> "GET", items |-> labelled(kvIdx, kvC)]

CompactGet == variant = "p2_compact" /\ \E req \in PlainGetReqs : ApplyGet(listCompact)
CompactPost ==
  variant = "p2_compact" /\ \E req \in PlainPostReqs : ApplyPost(req, postCompact(req), trimText(req.text))
CompactDelete ==
  variant = "p2_compact" /\ \E req \in DeleteReqs : ApplyDelete(req, deleteCompact(req))

\* --------------------------------------------- p3_admin (part_003 4-104)
\* (mutant) the token is never recognised
isAdminWriterNever(authz) == FALSE

\* lines 45-48
isAdminWriter(authz) == isAdminToken(authz)

\* lines 40-76; the id is Date.now()
postAdmin(req) ==
  LET text == trimText(req.text)
      who == ipHash(req.ip)
      admin == isAdminWriter(req.authz)
      id == now + 1
      item == Rec(id, 0, text, now + 1, IF admin THEN Operator ELSE who)
  IN  IF text = <<>> THEN Reject("EmptyContent")
      ELSE IF ~admin /\ ~req.cookie THEN Reject("Unauthenticated")
      ELSE IF ~admin /\ used(kvBy, who) THEN Reject("DuplicateSubmission")
      ELSE [code |-> "ok", idx |-> Append(kvIdx, id), c |-> Put(kvC, id, item),
            by |-> IF admin THEN kvBy ELSE Put(kvBy, who, Claim(id, 0)),
            who |-> IF admin THEN kvWho ELSE Put(kvWho, id, who), hot |-> kvHot,
            id |-> id, read |-> TRUE, au |-> IF admin THEN Operator ELSE who]

\* (mutant) the forward claim is kept
releaseAdminKeeps(by, who, id) == by

\* lines 91-96: both claims of the author of id are released
releaseAdmin(by, who, id) == IF Has(who, id) THEN Del(by, who[id]) ELSE by

\* lines 78-101
deleteAdmin(req) ==
  IF OwnerOrEmpty = "" \/ BearerToken(req.authz) # OwnerOrEmpty THEN Reject("Forbidden")
  ELSE IF req.id = 0 THEN Reject("InvalidId")
  ELSE IF req.id \notin Range(kvIdx) THEN Reject("NotFound")
  ELSE [code |-> "ok", idx |-> SelectSeqBy(kvIdx, {req.id}), c |-> Del(kvC, req.id),
        by |-> releaseAdmin(kvBy, kvWho, req.id), who |-> Del(kvWho, req.id),
        hot |-> kvHot, id |-> req.id, read |-> FALSE, au |-> authorOf(kvC, req.id)]

\* lines 28-38
listAdmin == [op |-> "GET", items |-> resolve(kvIdx, kvC)]

AdminGet == variant = "p3_admin" /\ \E req \in PlainGetReqs : ApplyGet(listAdmin)
AdminPost ==
  variant = "p3_admin" /\ \E req \in { r \in PostReqs : r.json } : ApplyPost(req, postAdmin(req), trimText(req.text))
AdminDelete ==
  variant = "p3_admin" /\ \E req \in DeleteReqs : ApplyDelete(req, deleteAdmin(req))

\* ------------------------------------------ calls that run concurrently
\* A call in flight: its request (op, ip, id), where it stands (pc, and i: the
\* next write or the loop counter), what it has read (idx, item), its
\* response (code), and whether another call was in flight while it ran.
MaxCalls == 2
Idle == [op |-> "none", pc |-> "idle", ip |-> 0, id |-> 0, idx |-> <<>>, i |-> 0,
         item |-> Rec(0, 0, <<>>, 0, <<>>), code |-> "", over |-> FALSE]
NoCalls == [k \in 1..MaxCalls |-> Idle]
inFlight(k) == calls[k].pc \notin {"idle", "done"}
returned(k, code) == [calls EXCEPT ![k].pc = "done", ![k].code = code]

\* the store writes of a call after its reads, in the order of the awaits:
\* POST comments.js 107-110, part_002 101-104, part_003 68-74; DELETE
\* comments.js 131-132
writesNoClaim(op) ==
  IF op = "DELETE" THEN <<"putIdx", "delC">> ELSE <<"putC", "putIdx">>
writesOf(op) ==
  IF op = "DELETE" THEN <<"putIdx", "delC">>
  ELSE IF variant = "p3_admin" THEN <<"putC", "putBy", "putWho", "putIdx">>
  ELSE <<"putC", "putIdx", "putBy">>

\* a request arrives: a POST that passes the checks made before the first
\* store call, or a DELETE with the operator's token and a numeric id
CallStart ==
  /\ variant \in {"comments_js", "p2_compact", "p3_admin"}
  /\ \E k \in 1..MaxCalls :
       /\ calls[k].pc = "idle" /\ \A j \in 1..(k - 1) : calls[j].pc # "idle"
       /\ LET busy == \E j \in 1..MaxCalls : inFlight(j)
              met == [j \in 1..MaxCalls |->
                        IF j = k THEN [Idle EXCEPT !.over = busy]
                        ELSE IF inFlight(j) THEN [calls[j] EXCEPT !.over = TRUE] ELSE calls[j]]
          IN  \/ \E ip \in Clients :
                   calls' = [met EXCEPT ![k].op = "POST", ![k].pc = "by", ![k].ip = ip]
              \/ \E id \in 1..MaxNow :
                   /\ variant # "p3_admin"
                   /\ calls' = [met EXCEPT ![k].op = "DELETE", ![k].pc = "idx", ![k].id = id]
  /\ resp' = NoResp
  /\ UNCHANGED <<variant, ownerPassword, store, now, deleted, loginVars>>

\* POST, one store call at a time
CallPost ==
  \E k \in 1..MaxCalls :
    LET c == calls[k]
        who == ipHash(c.ip)
        text == IF variant = "comments_js" THEN sanitizeText(textOf(c.ip)) ELSE trimText(textOf(c.ip))
        id == IF variant = "comments_js" THEN nextIdFinal(kvIdx)
              ELSE IF variant = "p2_compact" THEN Len(kvIdx) + 1 ELSE now + 1
        item == IF variant = "comments_js" THEN Rec(id, id, text, now + 1, who)
                ELSE IF variant = "p2_compact" THEN Rec(0, 0, text, now + 1, who)
                ELSE Rec(id, 0, text, now + 1, who)
    IN  /\ c.op = "POST"
        /\ \/ /\ c.pc = "by"
              /\ calls' = IF used(kvBy, who) THEN returned(k, "DuplicateSubmission")
                          ELSE [calls EXCEPT ![k].pc = "idx"]
              /\ UNCHANGED <<store, now>>
           \/ /\ c.pc = "idx"
              /\ calls' = [calls EXCEPT ![k].pc = "write", ![k].i = 1, ![k].id = id,
                                        ![k].idx = kvIdx, ![k].item = item]
              /\ now' = now + 1
              /\ UNCHANGED store
  /\ resp' = NoResp
  /\ UNCHANGED <<variant, ownerPassword, deleted, loginVars>>

\* DELETE of comments.js, lines 126-128: the index is read
CallDelete ==
  /\ variant = "comments_js"
  /\ \E k \in 1..MaxCalls :
       /\ calls[k].op = "DELETE" /\ calls[k].pc = "idx"
       /\ calls' = IF IndexOf(kvIdx, calls[k].id) = 0 THEN returned(k, "NotFound")
                   ELSE [calls EXCEPT ![k].pc = "write", ![k].i = 1,
                                      ![k].idx = RemoveAt(kvIdx, IndexOf(kvIdx, calls[k].id))]
  /\ resp' = NoResp
  /\ UNCHANGED <<variant, ownerPassword, store, now, deleted, loginVars>>

\* the next store write of a call; the call returns after its last one
CallWrite ==
  /\ \E k \in 1..MaxCalls :
       LET c == calls[k]
           w == writesOf(c.op)[c.i]
           who == ipHash(c.ip)
       IN  /\ c.pc = "write"
           /\ kvC' = IF w = "putC" THEN Put(kvC, c.id, c.item)
                      ELSE IF w = "delC" THEN Del(kvC, c.id) ELSE kvC
           /\ kvIdx' = IF w = "putIdx" THEN (IF c.op = "POST" THEN Append(c.idx, c.id) ELSE c.idx)
                        ELSE kvIdx
           /\ kvBy' = IF w = "putBy"
                       THEN Put(kvBy, who, Claim(IF variant = "p2_compact" THEN 1 ELSE c.id,
                                                 IF variant = "comments_js" THEN YEAR_TTL ELSE 0))
                       ELSE kvBy
           /\ kvWho' = IF w = "putWho" THEN Put(kvWho, c.id, who) ELSE kvWho
           /\ calls' = IF c.i = Len(writesOf(c.op)) THEN returned(k, "ok")
                       ELSE [calls EXCEPT ![k].i = c.i + 1]
  /\ resp' = NoResp
  /\ UNCHANGED <<variant, ownerPassword, kvHot, now, deleted, loginVars>>

\* DELETE of part_002, lines 124-152, one store call at a time: the order is
\* read, every remaining comment whose number changes is read, written under
\* its new number and deleted under the old one, the numbers above the new
\* count are deleted, and the new order is written
CallCompactDelete ==
  /\ variant = "p2_compact"
  /\ \E k \in 1..MaxCalls :
       LET c == calls[k]
           order == IF c.pc = "idx" THEN kvIdx ELSE c.idx
           remaining == SelectSeqBy(order, {c.id})
           newCount == Len(remaining)
           moves(j) == { m \in j..newCount : remaining[m] # m }
           from(j) == IF moves(j) = {} THEN [c EXCEPT !.pc = "clean", !.i = newCount + 1, !.idx = order]
                      ELSE [c EXCEPT !.pc = "get", !.i = MinOf(moves(j)), !.idx = order]
       IN  /\ c.op = "DELETE"
           /\ \/ /\ c.pc = "idx"
                 /\ calls' = IF IndexOf(kvIdx, c.id) = 0 THEN returned(k, "NotFound")
                             ELSE [calls EXCEPT ![k] = from(1)]
                 /\ UNCHANGED store
              \/ /\ c.pc = "get"
                 /\ calls' = IF Has(kvC, remaining[c.i])
                             THEN [calls EXCEPT ![k].pc = "put", ![k].item = kvC[remaining[c.i]]]
                             ELSE [calls EXCEPT ![k] = from(c.i + 1)]
                 /\ UNCHANGED store
              \/ /\ c.pc = "put"
                 /\ kvC' = Put(kvC, c.i, c.item)
                 /\ calls' = [calls EXCEPT ![k].pc = "del"]
                 /\ UNCHANGED <<kvIdx, kvBy, kvWho, kvHot>>
              \/ /\ c.pc = "del"
                 /\ kvC' = Del(kvC, remaining[c.i])
                 /\ calls' = [calls EXCEPT ![k] = from(c.i + 1)]
                 /\ UNCHANGED <<kvIdx, kvBy, kvWho, kvHot>>
              \/ /\ c.pc = "clean"
                 /\ kvC' = Del(kvC, c.i)
                 /\ calls' = IF c.i >= Len(order) THEN [calls EXCEPT ![k].pc = "putOrder"]
                             ELSE [calls EXCEPT ![k].i = c.i + 1]
                 /\ UNCHANGED <<kvIdx, kvBy, kvWho, kvHot>>
              \/ /\ c.pc = "putOrder"
                 /\ kvIdx' = [j \in 1..newCount |-> j]
                 /\ calls' = returned(k, "ok")
                 /\ UNCHANGED <<kvC, kvBy, kvWho, kvHot>>
  /\ resp' = NoResp
  /\ UNCHANGED <<variant, ownerPassword, now, deleted, loginVars>>

\* a call stops where it stands (the worker is cut off between two awaits)
CallCrash ==
  /\ \E k \in 1..MaxCalls : inFlight(k) /\ calls' = returned(k, "crashed")
  /\ resp' = NoResp
  /\ UNCHANGED <<variant, ownerPassword, store, now, deleted, loginVars>>

\* ---------------------------------------------------------- the KV store
\* a key stored with expirationTtl is removed by the store when its time is up
\* (the 10 s of hot:<hash> are up before the year of the by:<hash> written
\* just before it)
Expire ==
  /\ \/ \E h \in DOMAIN kvBy :
          kvBy[h].ttl > 0 /\ ~Has(kvHot, h) /\ kvBy' = Del(kvBy, h) /\ UNCHANGED kvHot
     \/ \E h \in DOMAIN kvHot :
          kvHot[h].ttl > 0 /\ kvHot' = Del(kvHot, h) /\ UNCHANGED kvBy
  /\ resp' = NoResp
  /\ UNCHANGED <<variant, ownerPassword, kvIdx, kvC, kvWho, now, deleted, loginVars, calls>>

\* a value of c:<id> is lost or overwritten from outside the handlers (the
\* store of comments.js after a partial write or an edit in the dashboard)
Damage ==
  /\ variant = "comments_js"
  /\ \E i \in DOMAIN kvIdx :
       \/ kvC' = Del(kvC, kvIdx[i])
       \/ \E v \in {NotJson, JsonNumber} : kvC' = Put(kvC, kvIdx[i], v)
  /\ kvC' # kvC
  /\ resp' = NoResp
  /\ UNCHANGED <<variant, ownerPassword, kvIdx, kvBy, kvWho, kvHot, now, deleted, loginVars, calls>>

\* ------------------------------------------------- /api/login: the store
LoginVariants == {"login_js", "p3_login", "p4_login"}
LoginClients == {0}
\* env.PASSWORD, and what a form may carry in `password`: it, the operator's
\* env.OWNER_PASSWORD, or something else
PASSWORD == "secret"
Passwords == {"secret", "owner", "bad"}

WARN1 == 5
WARN2 == 8
BAN_AT == 10
BAN_TTL == 86400
FAIL_TTL == 3600
\* part_003 and part_004: 24 * 60 * 60 (seconds), 24 * 60 * 60 * 1000 (ms)
RECORD_TTL == 86400
PENALTY_MS == 86400000

MaxClock == MaxHours * 3600 * 1000

failKey(ip) == <<"a", ip>>
banKey(ip) == <<"ban", ip>>
recordKey(ip) == <<"fail", ip>>

\* the key is stored and its time is not up at time t
liveAt(kv, key, t) == Has(kv, key) /\ t < kv[key].exp
\* ATTEMPTS.put(key, val, {expirationTtl: ttl})
putTtl(kv, key, val, ttl) == Put(kv, key, [val |-> val, exp |-> clock + ttl * 1000 + PutLag])

\* the response of /api/login and the store it leaves
LoginResp(status, stage, count, until, ttl, kv) ==
  [status |-> status, stage |-> stage, count |-> count, until |-> until, ttl |-> ttl, kv |-> kv]

\* -------------------------------------------- login.js (functions/api)
\* lines 32-37
getRemainingTTLSeconds(key, defaultTtl) == defaultTtl

\* (mutant) the ban key is not looked up
bannedNever(ip) == FALSE

\* lines 48-49
banned(ip) == liveAt(attempts, banKey(ip), clock)

\* lines 24-29: the new count and the store holding it
incAndGet(kv, key, ttlSeconds) ==
  LET current == IF liveAt(kv, key, clock) THEN kv[key].val ELSE 0
      next == current + 1
  IN  [next |-> next, kv |-> putTtl(kv, key, next, ttlSeconds)]

\* (mutant) the count survives a success
clearFailuresSkipped(kv, key) == kv

\* line 61: ATTEMPTS.delete(failKey)
clearFailures(kv, key) == Del(kv, key)

\* lines 39-109
loginFinal(pw, ip) ==
  IF banned(ip)
  THEN LoginResp(403, "banned", 0, 0, getRemainingTTLSeconds(banKey(ip), BAN_TTL), attempts)
  ELSE IF pw = PASSWORD
  THEN LoginResp(200, "success", 0, 0, 0, clearFailures(attempts, failKey(ip)))
  ELSE LET inc == incAndGet(attempts, failKey(ip), FAIL_TTL)
           count == inc.next
       IN  IF count >= BAN_AT
           THEN LoginResp(429, "penalty", 0, 0, BAN_TTL, putTtl(inc.kv, banKey(ip), 1, BAN_TTL))
           ELSE IF count >= WARN2 THEN LoginResp(401, "warn2", 0, 0, 0, inc.kv)
           ELSE IF count >= WARN1 THEN LoginResp(401, "warn1", 0, 0, 0, inc.kv)
           ELSE LoginResp(401, "normal", count, 0, 0, inc.kv)

\* ------------------------------------------------ part_003 lines 129-207
NoRecord == [count |-> 0, penaltyUntil |-> 0]
\* ATTEMPTS.get(key, {type: 'json'}) || {count: 0, penaltyUntil: 0}
recordOf(kv, key) == IF liveAt(kv, key, clock) THEN kv[key].val ELSE NoRecord

\* (mutant) a penalty is never found running
inPenaltyNever(record, t) == FALSE

\* part_003 line 141, part_004 line 10
inPenalty(record, t) == record.penaltyUntil # 0 /\ t < record.penaltyUntil

\* part_003 lines 129-207
loginRecord(pw, ip) ==
  LET key == recordKey(ip)
      record == recordOf(attempts, key)
      over == record.penaltyUntil # 0 /\ clock >= record.penaltyUntil
      rec1 == IF over THEN NoRecord ELSE record
      kv1 == IF over THEN putTtl(attempts, key, rec1, RECORD_TTL) ELSE attempts
      count == rec1.count + 1
      until == IF rec1.penaltyUntil = 0 \/ clock >= rec1.penaltyUntil
               THEN clock + PENALTY_MS ELSE rec1.penaltyUntil
      rec2 == [count |-> count, penaltyUntil |-> rec1.penaltyUntil]
  IN  IF inPenalty(record, clock)
      THEN LoginResp(403, "penalty", 0, record.penaltyUntil, 0, attempts)
      ELSE IF pw = PASSWORD THEN LoginResp(200, "success", 0, 0, 0, Del(kv1, key))
      ELSE IF count >= 10
      THEN LoginResp(429, "penalty", 0, until, 0,
                     putTtl(kv1, key, [count |-> count, penaltyUntil |-> until], RECORD_TTL))
      ELSE IF count >= 8 THEN LoginResp(401, "warn2", count, 0, 0, putTtl(kv1, key, rec2, RECORD_TTL))
      ELSE IF count >= 5 THEN LoginResp(401, "warn1", count, 0, 0, putTtl(kv1, key, rec2, RECORD_TTL))
      ELSE LoginResp(401, "normal", count, 0, 0, putTtl(kv1, key, rec2, RECORD_TTL))

\* ---------------------------------------------------------------- part_004
\* lines 23-35: the stage of the count
stageOf(count) ==
  IF count = 5 THEN "warn1" ELSE IF count = 8 THEN "warn2"
  ELSE IF count >= 10 THEN "penalty" ELSE "normal"

\* lines 1-39
loginStrict(pw, ip) ==
  LET key == recordKey(ip)
      record == recordOf(attempts, key)
      count == record.count + 1
      stage == stageOf(count)
      until == IF stage = "penalty" THEN clock + PENALTY_MS ELSE record.penaltyUntil
  IN  IF inPenalty(record, clock)
      THEN LoginResp(403, "penalty", 0, record.penaltyUntil, 0, attempts)
      ELSE IF pw = PASSWORD THEN LoginResp(200, "success", 0, 0, 0, Del(attempts, key))
      ELSE LoginResp(401, stage, count, until, 0,
                     putTtl(attempts, key, [count |-> count, penaltyUntil |-> until], RECORD_TTL))

\* ------------------------------------------------------ /api/login actions
\* the ip has neither a running count nor a running lockout at time t
cleanAt(kv, ip, t) ==
  IF loginVariant = "login_js"
  THEN ~liveAt(kv, failKey(ip), t) /\ ~liveAt(kv, banKey(ip), t)
  ELSE \/ ~liveAt(kv, recordKey(ip), t)
       \/ (kv[recordKey(ip)].val.penaltyUntil # 0 /\ t >= kv[recordKey(ip)].val.penaltyUntil)

\* the failures counted for the ip when the request arrives
countOf(kv, ip) ==
  IF loginVariant = "login_js"
  THEN IF liveAt(kv, failKey(ip), clock) THEN kv[failKey(ip)].val ELSE 0
  ELSE recordOf(kv, recordKey(ip)).count

ApplyLogin(pw, ip, r) ==
  /\ attempts' = r.kv
  /\ lresp' = [op |-> "LOGIN", ip |-> ip, pw |-> pw, status |-> r.status, stage |-> r.stage,
               count |-> r.count, until |-> r.until, ttl |-> r.ttl,
               had |-> countOf(attempts, ip)]
  /\ streak' = [streak EXCEPT ![ip] = IF r.stage = "success" THEN 0
                                       ELSE IF @ > BAN_AT THEN @ ELSE @ + 1]
  /\ UNCHANGED <<loginVariant, clock, ledgerVars, calls>>

FinalLogin ==
  loginVariant = "login_js" /\ \E pw \in Passwords, ip \in LoginClients : ApplyLogin(pw, ip, loginFinal(pw, ip))
RecordLogin ==
  loginVariant = "p3_login" /\ \E pw \in Passwords, ip \in LoginClients : ApplyLogin(pw, ip, loginRecord(pw, ip))
StrictLogin ==
  loginVariant = "p4_login" /\ \E pw \in Passwords, ip \in LoginClients : ApplyLogin(pw, ip, loginStrict(pw, ip))

\* ----------------------------- /api/login, one store call at a time
\* a form with a wrong password arrives while at most MaxCalls run
LoginStart ==
  /\ loginVariant \in {"login_js", "p3_login"}
  /\ \E k \in 1..MaxCalls, ip \in LoginClients :
       /\ calls[k].pc = "idle" /\ \A j \in 1..(k - 1) : calls[j].pc # "idle"
       /\ streak[ip] <= BAN_AT
       /\ calls' = [calls EXCEPT ![k] = [Idle EXCEPT !.op = "LOGIN", !.ip = ip,
                       !.pc = IF loginVariant = "login_js" THEN "ban" ELSE "get"]]
  /\ lresp' = NoResp
  /\ UNCHANGED <<loginVariant, attempts, clock, streak, ledgerVars>>

\* the next await of a call: login.js lines 48 (ban), 25 (get), 27 (put),
\* 76 (putBan); part_003 lines 135 (get), 173-201 (put). A call that returns
\* 401 or 429 is one more failed login of the ip; its slot is free again.
LoginStep ==
  /\ \E k \in 1..MaxCalls :
       LET c == calls[k]
           failed == [streak EXCEPT ![c.ip] = @ + 1]
           next == c.i + 1
           record == recordOf(attempts, recordKey(c.ip))
           count == c.item.count + 1
           until == IF count >= 10 /\ (c.item.penaltyUntil = 0 \/ clock >= c.item.penaltyUntil)
                    THEN clock + PENALTY_MS ELSE c.item.penaltyUntil
       IN  /\ c.op = "LOGIN"
           /\ \/ /\ c.pc = "ban"
                 /\ calls' = IF banned(c.ip) THEN [calls EXCEPT ![k] = Idle]
                             ELSE [calls EXCEPT ![k].pc = "get"]
                 /\ UNCHANGED <<attempts, streak>>
              \/ /\ c.pc = "get" /\ loginVariant = "login_js"
                 /\ calls' = [calls EXCEPT ![k].pc = "put", ![k].i = countOf(attempts, c.ip)]
                 /\ UNCHANGED <<attempts, streak>>
              \/ /\ c.pc = "put" /\ loginVariant = "login_js"
                 /\ attempts' = putTtl(attempts, failKey(c.ip), next, FAIL_TTL)
                 /\ calls' = IF next >= BAN_AT THEN [calls EXCEPT ![k].pc = "putBan"]
                             ELSE [calls EXCEPT ![k] = Idle]
                 /\ streak' = IF next >= BAN_AT THEN streak ELSE failed
              \/ /\ c.pc = "putBan"
                 /\ attempts' = putTtl(attempts, banKey(c.ip), 1, BAN_TTL)
                 /\ calls' = [calls EXCEPT ![k] = Idle]
                 /\ streak' = failed
              \/ /\ c.pc = "get" /\ loginVariant = "p3_login"
                 /\ calls' = IF inPenalty(record, clock) THEN [calls EXCEPT ![k] = Idle]
                             ELSE [calls EXCEPT ![k].pc = "put", ![k].item = record]
                 /\ UNCHANGED <<attempts, streak>>
              \/ /\ c.pc = "put" /\ loginVariant = "p3_login"
                 /\ attempts' = putTtl(attempts, recordKey(c.ip),
                                       [count |-> count, penaltyUntil |-> until], RECORD_TTL)
                 /\ calls' = [calls EXCEPT ![k] = Idle]
                 /\ streak' = failed
  /\ lresp' = NoResp
  /\ UNCHANGED <<loginVariant, clock, ledgerVars>>

\* time passes: the hour of FAIL_TTL, or the day of BAN_TTL
TickSteps == {FAIL_TTL * 1000, BAN_TTL * 1000}
Tick ==
  /\ \E d \in TickSteps : clock + d <= MaxClock /\ clock' = clock + d
  /\ lresp' = NoResp
  /\ streak' = [ip \in LoginClients |-> IF cleanAt(attempts, ip, clock') THEN 0 ELSE streak[ip]]
  /\ UNCHANGED <<loginVariant, attempts, ledgerVars, calls>>

\* ------------------------------------------------------- specifications
LoginIdle ==
  /\ attempts = <<>> /\ clock = 0 /\ lresp = NoResp /\ calls = NoCalls
  /\ streak = [ip \in LoginClients |-> 0]

LedgerEmpty ==
  /\ kvIdx = <<>> /\ kvC = <<>> /\ kvBy = <<>> /\ kvWho = <<>> /\ kvHot = <<>>
  /\ now = 0 /\ resp = NoResp /\ deleted = FALSE

Init ==
  /\ variant \in Variants
  /\ ownerPassword \in OwnerConfigs
  /\ LedgerEmpty
  /\ loginVariant = "login_js"
  /\ LoginIdle

InitLogin ==
  /\ variant = "comments_js"
  /\ ownerPassword = "owner"
  /\ LedgerEmpty
  /\ loginVariant \in LoginVariants
  /\ LoginIdle

InitLoginRace == InitLogin /\ loginVariant \in {"login_js", "p3_login"}
NextLoginRace == LoginStart \/ LoginStep
SpecLoginRace == InitLoginRace /\ [][NextLoginRace]_vars

NextLogin == FinalLogin \/ RecordLogin \/ StrictLogin \/ Tick

\* a board of n comments of n clients whose claims have expired, the oldest
\* `gone` of which the operator has deleted
ListedIds == { [i \in 1..n |-> i + gone] : n \in 0..MaxTotal, gone \in {0, 1} }
InitList ==
  /\ variant \in {"comments_js", "p1_paged"}
  /\ ownerPassword = "owner"
  /\ kvIdx \in ListedIds
  /\ kvC = [id \in Range(kvIdx) |-> Rec(id, id, <<"a">>, id, ipHash(id))]
  /\ kvBy = <<>> /\ kvWho = <<>> /\ kvHot = <<>>
  /\ now = MaxOf(Range(kvIdx) \cup {0})
  /\ resp = NoResp
  /\ deleted = (kvIdx # <<>> /\ kvIdx[1] # 1)
  /\ loginVariant = "login_js"
  /\ LoginIdle

\* ?page= and ?limit= of the GET requests of the pagination specification
PageParams == {Absent, Garbage} \cup { IntParam(v) : v \in (-1..3) \cup {99} }
LimitParams == {Absent, Garbage} \cup { IntParam(v) : v \in (-1..2) \cup {20, 50, 51} }
\* comments.js lines 57-81, part_001 lines 284-304, any page and limit
ListPage ==
  /\ variant \in {"comments_js", "p1_paged"}
  /\ \E page \in PageParams, limit \in LimitParams : ApplyGet(listPaged(page, limit))

Handlers ==
  \/ FinalGet \/ FinalPost \/ FinalDelete
  \/ FirstGet \/ FirstPost \/ FirstDelete
  \/ WhoGet \/ WhoPost \/ WhoDelete
  \/ PagedGet \/ PagedPost \/ PagedDelete
  \/ CompactGet \/ CompactPost \/ CompactDelete
  \/ AdminGet \/ AdminPost \/ AdminDelete

Next == Handlers \/ Expire

\* requests handled one at a time, keys expiring in between
Spec == Init /\ [][Next]_vars

\* requests handled one at a time before any key expires
SpecCalls == Init /\ [][Handlers]_vars

\* body.text of the POST requests of the sanitisation specification: a run of
\* n copies of one character between two borders, a run split by one other
\* character, a run longer than MAX_LEN, and a run across the cut of a line
MinRun == 19
MaxRun == 26
HalfRun == 13
LongRun == 310
LinePrefix == 110
RunChars == { <<"a">>, <<"HAN">>, <<"HI", "LO">>, <<"SP">>, <<"LF">>, <<"NUL">>, <<"ZW">> }
BordersBefore == { <<>>, <<"b">>, <<"b", "SP">> }
BordersAfter == { <<>>, <<"b">>, <<"SP", "b">> }
RepeatChar(ch, n) == [i \in 1..(n * Len(ch)) |-> ch[((i - 1) % Len(ch)) + 1]]
Build(p, ch, n, q) == p \o RepeatChar(ch, n) \o q
\* a line of LinePrefix characters without a run of RUN_MAX
LineOf == [i \in 1..LinePrefix |-> IF ((i - 1) \div MinRun) % 2 = 0 THEN "b" ELSE "c"]
RunTexts ==
  { Build(p, ch, n, q) : p \in BordersBefore, ch \in RunChars, n \in {MinRun, MinRun + 1, MinRun + 2, MaxRun},
                        q \in BordersAfter }
  \cup { Repeat("a", HalfRun) \o <<sep>> \o Repeat("a", HalfRun) : sep \in {"ZW", "NUL", "SP", "LF"} }
  \cup { Repeat("a", LongRun), NoText, <<"SP", "NUL", "ZW", "LF", "TAB", "BOM", "CR">> }
  \cup { LineOf \o Repeat("a", MaxRun), LineOf \o <<"LF">> \o LineOf \o <<"LF">> \o LineOf }
RunReqs == [ip : {0}, cookie : {TRUE}, authz : {NoHeader}, json : {TRUE}, text : RunTexts]

\* comments.js lines 84-113 and part_001 lines 307-360 on an empty board
SanitizePost ==
  /\ variant = "comments_js" /\ kvIdx = <<>>
  /\ \E req \in RunReqs : ApplyPost(req, postFinal(req), sanitizeText(req.text))
SanitizePagedPost ==
  /\ variant = "p1_paged" /\ kvIdx = <<>>
  /\ \E req \in RunReqs : ApplyPost(req, postPaged(req), pagedClean(req.text))
InitSanitize == Init /\ variant \in {"comments_js", "p1_paged"} /\ ownerPassword = "owner"
NextSanitize == SanitizePost \/ SanitizePagedPost
\* the first POST of a board, its text any of RunTexts
SpecSanitize == InitSanitize /\ [][NextSanitize]_vars

\* a board of n comments written one after the other by the clients 2..n+1,
\* and calls of the clients 0 and 1 and of the operator that interleave
InitRace ==
  /\ variant \in {"comments_js", "p2_compact", "p3_admin"}
  /\ ownerPassword = "owner"
  /\ \E n \in 0..MaxNow :
       /\ kvIdx = [j \in 1..n |-> j]
       /\ kvC = [j \in 1..n |->
                   Rec(IF variant = "p2_compact" THEN 0 ELSE j,
                       IF variant = "comments_js" THEN j ELSE 0,
                       trimText(textOf(j + 1)), j, ipHash(j + 1))]
       /\ kvBy = [h \in { ipHash(j + 1) : j \in 1..n } |->
                    Claim(IF variant = "p2_compact" THEN 1 ELSE h[2] - 1,
                          IF variant = "comments_js" THEN YEAR_TTL ELSE 0)]
       /\ kvWho = IF variant = "p3_admin" THEN [j \in 1..n |-> ipHash(j + 1)] ELSE <<>>
       /\ now = n
  /\ kvHot = <<>> /\ resp = NoResp /\ deleted = FALSE
  /\ loginVariant = "login_js"
  /\ LoginIdle
NextRace == CallStart \/ CallPost \/ CallDelete \/ CallCompactDelete \/ CallWrite
SpecRace == InitRace /\ [][NextRace]_vars
\* the same calls, any of which may stop half-way, and the list read between
NextCrash == NextRace \/ CallCrash \/ FinalGet \/ CompactGet \/ AdminGet
SpecCrash == InitRace /\ [][NextCrash]_vars

\* the requests of comments.js on a store whose records get damaged
InitDamaged == Init /\ variant = "comments_js"
NextDamaged == FinalGet \/ FinalPost \/ FinalDelete \/ Damage
SpecDamaged == InitDamaged /\ [][NextDamaged]_vars

\* GET requests with any page and limit on boards of up to MaxTotal comments
SpecList == InitList /\ [][ListPage]_vars

\* /api/login requests of one client, handled one at a time, and time passing
SpecLogin == InitLogin /\ [][NextLogin]_vars

C2_DuplicateRejected ==
  [][ (resp'.op = "POST" /\ ~resp'.admin /\ Has(kvBy, ipHash(resp'.ip))) =>
        /\ resp'.code # "ok"
        /\ store' = store
        /\ (resp'.cookie /\ resp'.json /\ ~resp'.blank) => resp'.code = "DuplicateSubmission"
    ]_vars

C2_Witness == resp.op = "POST" /\ resp.code = "DuplicateSubmission" /\ Len(kvIdx) >= 1

\* the step is an acceptable SubmitComment of the author of the comment that
\* the DeleteComment before it removed
ResubmitAfterDelete ==
  /\ resp.op = "DELETE" /\ resp.code = "ok"
  /\ resp'.op = "POST" /\ resp.au = ipHash(resp'.ip)
  /\ resp'.cookie /\ resp'.json /\ ~resp'.blank /\ ~resp'.admin

\* C3 as stated: after a successful DeleteComment of a comment of the
\* non-privileged identity H, the next SubmitComment from H (authenticated,
\* text not blank) succeeds -- in comments.js, part_003 and the who: draft
C3_ResubmitSucceeds ==
  [][ (variant \in {"comments_js", "p3_admin", "p1_who"} /\ ResubmitAfterDelete) =>
        resp'.code = "ok" ]_vars

\* C3 amended: it succeeds in the drafts that store the reverse claim
\* who:<id> (part_003, who: draft); DeleteComment of comments.js leaves the
\* forward claims as they are, and H's next SubmitComment is answered
\* DuplicateSubmission while H's claim is stored
C3_ResubmitWhereReleased ==
  [][ /\ (variant \in {"p3_admin", "p1_who"} /\ ResubmitAfterDelete) => resp'.code = "ok"
      /\ (variant = "comments_js" /\ resp'.op = "DELETE") => kvBy' = kvBy
      /\ (variant = "comments_js" /\ ResubmitAfterDelete /\ Has(kvBy, resp.au)) =>
            resp'.code = "DuplicateSubmission"
    ]_vars

\* (two clients, no expiry in p1_who: the third comment stored is of a client
\* whose comment was deleted)
C3_Witness ==
  /\ variant = "p1_who" /\ deleted /\ now = 3 /\ Len(kvIdx) = 2
  /\ resp.op = "POST" /\ resp.code = "ok"

\* C4 as stated: after a successful DeleteComment, ListComments returns items
\* whose ids are 1..M without gaps, each labelled with its id -- in
\* comments.js, part_002 and the first draft of part_001
C4_ContiguousAfterDelete ==
  (variant \in {"comments_js", "p2_compact", "p1_first"} /\ deleted /\ resp.op = "GET") =>
    \A i \in 1..Len(resp.items) : resp.items[i].id = i /\ resp.items[i].by = i

LockedStages == {"banned", "penalty"}
\* when the lockout that the response announces ends: `until`, or `ttl`
\* seconds from now
lockoutUntil(r) == IF r.until # 0 THEN r.until ELSE clock + r.ttl * 1000
\* the ip's lockout is running
lockedNow(ip) ==
  IF loginVariant = "login_js"
  THEN Has(attempts, banKey(ip)) /\ clock < attempts[banKey(ip)].exp
  ELSE /\ Has(attempts, recordKey(ip)) /\ clock < attempts[recordKey(ip)].exp
       /\ clock < attempts[recordKey(ip)].val.penaltyUntil

\* C6 as stated: the k-th failed Authenticate in a row of a client that was
\* clean returns Normal for k in 1..4, Warning1 for k in 5..7, Warning2 for
\* k in 8..9 and Locked until now + 24 h for k = 10 -- in every draft of
\* /api/login
C6_Escalation ==
  (lresp.op = "LOGIN" /\ lresp.stage # "success") =>
    LET k == streak[lresp.ip]
    IN  /\ k \in 1..4 => lresp.stage = "normal"
        /\ k \in 5..7 => lresp.stage = "warn1"
        /\ k \in 8..9 => lresp.stage = "warn2"
        /\ k = 10 => (lresp.stage \in LockedStages /\ lockoutUntil(lresp) = clock + 24 * 3600 * 1000)

\* C7: while the client's lockout is running, an Authenticate call with the
\* primary secret or a wrong one is answered Locked, never Success, and
\* writes nothing to the store.  Every draft of /api/login.
C7_LockedWhateverSecret ==
  [][ (lresp'.op = "LOGIN" /\ lockedNow(lresp'.ip) /\ lresp'.pw \in {PASSWORD, "bad"}) =>
        (lresp'.stage \in LockedStages /\ lresp'.status = 403 /\ attempts' = attempts)
    ]_vars

C7_Witness == lresp.op = "LOGIN" /\ lresp.pw = PASSWORD /\ lresp.stage \in LockedStages

ClampInto(n, lo, hi) == IF n < lo THEN lo ELSE IF n > hi THEN hi ELSE n
\* the least k with k * limit >= total
PagesFor(total, limit) == CHOOSE k \in 0..total : k * limit >= total /\ (k = 0 \/ (k - 1) * limit < total)

\* C9: for integer page and limit, ListComments answers limit clamped into
\* 1..50, page clamped into 1..totalPages with totalPages = max(1,
\* ceil(total/limit)), total = the length of the index, and as items the
\* records of the index positions (page-1)*limit+1 .. min(page*limit, total),
\* in index order.  comments.js and the paginated draft of part_001.
C9_PageClamped ==
  (resp.op = "GET" /\ resp.req.page.kind = "int" /\ resp.req.limit.kind = "int") =>
    LET total == Len(kvIdx)
        limit == ClampInto(resp.req.limit.v, 1, 50)
        pages == IF PagesFor(total, limit) > 1 THEN PagesFor(total, limit) ELSE 1
        page == ClampInto(resp.req.page.v, 1, pages)
        first == (page - 1) * limit + 1
        last == IF page * limit < total THEN page * limit ELSE total
    IN  /\ resp.total = total
        /\ resp.limit = Num(limit)
        /\ resp.page = Num(page)
        /\ Len(resp.items) = (IF last >= first THEN last - first + 1 ELSE 0)
        /\ \A i \in 1..Len(resp.items) : resp.items[i].id = kvIdx[first + i - 1]

\* (45 comments, limit 20, page 99: the last page, items 41..45)
C9_Witness ==
  /\ resp.op = "GET" /\ Len(kvIdx) = 45
  /\ resp.req.limit = IntParam(20) /\ resp.req.page = IntParam(99)
  /\ resp.page = Num(3) /\ Len(resp.items) = 5 /\ resp.items[1].id = kvIdx[41]

\* the secret that a DELETE request presents: body.admin in the who: draft,
\* the Authorization header without "Bearer " elsewhere
presented(req) ==
  IF variant = "p1_who" THEN req.admin ELSE IF req.authz = NoHeader THEN "" ELSE req.authz
\* the request presents something else than the configured OWNER_PASSWORD
wrongToken(req) == ownerPassword = Unset \/ presented(req) # ownerPassword

\* C11: DeleteComment with a token that is not the configured administrator
\* secret is answered Forbidden and leaves index, records and claims as they
\* are.  comments.js, part_003, part_002, the paginated draft of part_001.
C11_WrongTokenForbidden ==
  [][ (/\ variant \in {"comments_js", "p3_admin", "p2_compact", "p1_paged"}
       /\ resp'.op = "DELETE" /\ wrongToken(resp'.req)) =>
        (resp'.code = "Forbidden" /\ store' = store) ]_vars

C11_Witness ==
  /\ variant = "comments_js" /\ ownerPassword = "owner" /\ Len(kvIdx) >= 1
  /\ resp.op = "DELETE" /\ resp.req.authz = NoHeader /\ resp.req.id = kvIdx[1]
  /\ resp.code = "Forbidden"

\* the request presents the configured, non-empty OWNER_PASSWORD
rightToken(req) == ownerPassword \notin {Unset, ""} /\ presented(req) = ownerPassword
\* the step is a DELETE with the right token for a positive id that the index
\* does not hold
DeleteOfUnknownId ==
  /\ resp'.op = "DELETE" /\ rightToken(resp'.req)
  /\ resp'.req.id # 0 /\ \A i \in DOMAIN kvIdx : kvIdx[i] # resp'.req.id

\* C12 as stated: DeleteComment with the administrator token and an id that
\* is not in the index is answered NotFound and leaves index, records and
\* claims as they are -- in comments.js, part_003 and the first draft of
\* part_001
C12_UnknownIdNotFound ==
  [][ (variant \in {"comments_js", "p3_admin", "p1_first"} /\ DeleteOfUnknownId) =>
        (resp'.code = "NotFound" /\ store' = store) ]_vars

\* C13: after a successful DeleteComment(id), id is not in the index, no
\* record is stored under id, and when a reverse claim who:<id> was stored,
\* it and the forward claim of the identity it named are gone.  The drafts
\* that keep the ids of the remaining comments: comments.js, part_003, the
\* who: and the paginated draft of part_001.
C13_DeleteRemoves ==
  [][ (/\ variant \in {"comments_js", "p3_admin", "p1_who", "p1_paged"}
       /\ resp'.op = "DELETE" /\ resp'.code = "ok") =>
        LET id == resp'.req.id
        IN  /\ \A i \in DOMAIN kvIdx' : kvIdx'[i] # id
            /\ id \notin DOMAIN kvC'
            /\ id \in DOMAIN kvWho =>
                 (id \notin DOMAIN kvWho' /\ kvWho[id] \notin DOMAIN kvBy')
    ]_vars

\* (a comment of a client, with its reverse claim, has been deleted)
C13_Witness ==
  /\ variant = "p3_admin" /\ resp.op = "DELETE" /\ resp.code = "ok"
  /\ resp.au \in { ipHash(ip) : ip \in Clients } /\ resp.au \notin DOMAIN kvBy
  /\ Len(kvIdx) >= 1

\* C14: after every completed call of a sequence of SubmitComment and
\* DeleteComment calls, every id of the index has a record stored under it.
\* All drafts.
C14_IndexedIdsStored == \A i \in DOMAIN kvIdx : kvIdx[i] \in DOMAIN kvC

\* (the compacting draft has deleted the first of two comments and moved the
\* record of the second to id 1)
C14_Witness ==
  /\ variant = "p2_compact" /\ now = 2 /\ kvIdx = <<1>>
  /\ resp.op = "DELETE" /\ resp.code = "ok" /\ resp.req.id = 1
  /\ 1 \in DOMAIN kvC /\ kvC[1].ts = 2

\* C15: a SubmitComment with the administrator token and a text that is not
\* blank succeeds whatever claims are stored, the caller's own included, as
\* often as it is made, and leaves the forward and the reverse claims as they
\* were.  part_003.
C15_PrivilegedBypassesClaims ==
  [][ (/\ variant = "p3_admin" /\ resp'.op = "POST" /\ ~resp'.blank
       /\ ownerPassword \notin {Unset, ""} /\ resp'.authz = ownerPassword) =>
        (resp'.code = "ok" /\ kvBy' = kvBy /\ kvWho' = kvWho) ]_vars

\* (a client that holds a claim has posted twice more with the token)
C15_Witness ==
  /\ variant = "p3_admin" /\ resp.op = "POST" /\ resp.code = "ok"
  /\ resp.authz = ownerPassword /\ ipHash(resp.ip) \in DOMAIN kvBy
  /\ Len(kvIdx) = 3 /\ kvC[kvIdx[2]].au = Operator /\ kvC[kvIdx[3]].au = Operator

\* no failure count and no lockout of the ip is stored and alive at time t
noFailureState(kv, ip, t) ==
  \A key \in IF loginVariant = "login_js" THEN {failKey(ip), banKey(ip)} ELSE {recordKey(ip)} :
    key \in DOMAIN kv => t >= kv[key].exp

\* C16: a successful Authenticate leaves no failure state of the client, and
\* a failed attempt of a client without failure state has count 1 and
\* returns Normal: so does the first failed attempt after a success, whatever
\* the count was before it.  Every draft of /api/login.
C16_SuccessClears ==
  [][ /\ (lresp'.op = "LOGIN" /\ lresp'.stage = "success") =>
            noFailureState(attempts', lresp'.ip, clock')
      /\ (lresp'.op = "LOGIN" /\ lresp'.pw # PASSWORD /\ noFailureState(attempts, lresp'.ip, clock)) =>
            (lresp'.stage = "normal" /\ lresp'.count = 1)
    ]_vars

\* (a success after five or more failures)
C16_Witness ==
  /\ lresp.op = "LOGIN" /\ lresp.stage = "success" /\ lresp.had >= WARN1
  /\ noFailureState(attempts, lresp.ip, clock)

\* the ip was locked out and the lockout is over: the ban key of login.js has
\* run out (and no count is running), the penaltyUntil of the record of
\* part_003 and part_004 has passed
lockoutOver(ip) ==
  IF loginVariant = "login_js"
  THEN /\ banKey(ip) \in DOMAIN attempts /\ clock >= attempts[banKey(ip)].exp
       /\ noFailureState(attempts, ip, clock)
  ELSE /\ recordKey(ip) \in DOMAIN attempts
       /\ attempts[recordKey(ip)].val.penaltyUntil # 0
       /\ clock >= attempts[recordKey(ip)].val.penaltyUntil

\* C17 as stated: the first Authenticate after the client's lockout has
\* expired returns Normal with count 1 for a wrong secret and Success for the
\* primary secret -- in every draft of /api/login
C17_ExpiredLockoutResets ==
  [][ (lresp'.op = "LOGIN" /\ lockoutOver(lresp'.ip)) =>
        IF lresp'.pw = PASSWORD THEN lresp'.stage = "success"
        ELSE lresp'.stage = "normal" /\ lresp'.count = 1
    ]_vars

\* the greatest id of a non-empty index
HighestOf(idx) == CHOOSE m \in { idx[i] : i \in DOMAIN idx } : \A i \in DOMAIN idx : idx[i] <= m

\* C18: a successful SubmitComment appends to the index the id max(index) + 1,
\* or 1 when the index is empty: an id above every id of the index, never
\* one below the maximum that a deletion has freed.  comments.js, part_002,
\* the first and the paginated draft of part_001.
C18_NextIdAboveAll ==
  [][ (/\ variant \in {"comments_js", "p2_compact", "p1_first", "p1_paged"}
       /\ resp'.op = "POST" /\ resp'.code = "ok") =>
        /\ resp'.id = (IF kvIdx = <<>> THEN 1 ELSE HighestOf(kvIdx) + 1)
        /\ \A i \in DOMAIN kvIdx : kvIdx[i] < resp'.id
        /\ kvIdx' = Append(kvIdx, resp'.id)
    ]_vars

\* (comments.js: id 1 was deleted, and the next comment got id 3)
C18_Witness ==
  /\ variant = "comments_js" /\ deleted /\ resp.op = "POST" /\ resp.code = "ok"
  /\ resp.id = 3 /\ kvIdx = <<2, 3>>

\* C19 as stated: a GET of comments.js never fails on a store some of whose
\* records are damaged: the indexed ids whose record is missing or is not JSON
\* are skipped, the other records of the page are returned in index order,
\* and total is the length of the index.
intact(i) == Has(kvC, kvIdx[i]) /\ kvC[kvIdx[i]] # NotJson
C19_ListNeverFails ==
  (variant = "comments_js" /\ resp.op = "GET") =>
    /\ ~resp.threw
    /\ resp.total = Len(kvIdx)
    /\ Len(resp.items) = Cardinality({ i \in DOMAIN kvIdx : intact(i) })
    /\ \A k \in DOMAIN resp.items :
         \E i \in DOMAIN kvIdx :
           /\ intact(i) /\ resp.items[k] = kvC[kvIdx[i]]
           /\ Cardinality({ j \in 1..i : intact(j) }) = k

\* C20 as stated: the text stored for an accepted comment is the text
\* submitted with every run of more than 20 copies of one visible character
\* cut to 20 copies (26 x "a" is stored as 20 x "a"), and it holds no run of
\* more than 20 copies of one character that is not white space.
VisibleChars == { ch \in RunChars : \A i \in DOMAIN ch : ~IsSpace(ch[i]) /\ ~IsControl(ch[i]) }
noLongRun(t, chars) ==
  \A ch \in chars : \A i \in DOMAIN t :
    LET j == i + (RUN_MAX + 1) * Len(ch) - 1
    IN  ~(j <= Len(t) /\ SubSeq(t, i, j) = RepeatChar(ch, RUN_MAX + 1))
runsCut(chars) ==
  \A p \in BordersBefore, q \in BordersAfter, ch \in chars, n \in (RUN_MAX + 1)..MaxRun :
    resp.text = Build(p, ch, n, q) => kvC[resp.id].text = Build(p, ch, RUN_MAX, q)
C20_RunsCollapsed ==
  (variant \in {"comments_js", "p1_paged"} /\ resp.op = "POST" /\ resp.code = "ok") =>
    /\ runsCut(VisibleChars)
    /\ noLongRun(kvC[resp.id].text, VisibleChars \cup {<<"b">>, <<"c">>})

\* C21 as stated: a POST is never answered TooLong, and the text stored for
\* an accepted comment has at most MAX_LEN characters.
C21_TruncatedNotRejected ==
  (variant \in {"comments_js", "p1_paged"} /\ resp.op = "POST") =>
    /\ resp.code # "TooLong"
    /\ resp.code = "ok" => Len(kvC[resp.id].text) <= MAX_LEN

\* C22: a POST to comments.js whose text is missing, not a string, or made of
\* white space, control and zero-width characters only, is never accepted and
\* changes nothing in the store; sent as JSON it is answered EmptyContent.
blankInput(t) == t = NoText \/ \A i \in DOMAIN t : IsSpace(t[i]) \/ IsControl(t[i]) \/ IsZeroWidth(t[i])
C22_EmptyRejected ==
  [][ (variant = "comments_js" /\ resp'.op = "POST" /\ blankInput(resp'.text)) =>
        /\ store' = store
        /\ resp'.code = (IF resp'.json THEN "EmptyContent" ELSE "InvalidContentType") ]_vars

C22_Witness ==
  /\ variant = "comments_js" /\ resp.op = "POST" /\ resp.code = "EmptyContent"
  /\ resp.text = Build(<<>>, <<"SP">>, MaxRun, <<>>) /\ kvBy = <<>>

ended(k, op) == calls[k].op = op /\ calls[k].pc = "done" /\ calls[k].code = "ok"
apart(k, l) == ~calls[k].over \/ ~calls[l].over
alone(k, l) == \A j \in 1..MaxCalls \ {k, l} : calls[j].pc = "idle"

\* C23: two SubmitComment calls of one non-privileged identity can both
\* succeed and leave two comments of that identity in the index, and they do
\* so only when the store calls of the two interleave: of two calls that ran
\* one after the other, the second is refused
C23_DoubleOnlyInterleaved ==
  \A k, l \in 1..MaxCalls :
    (variant \in {"comments_js", "p3_admin"} /\ k # l /\ ended(k, "POST") /\ ended(l, "POST")
       /\ calls[k].ip = calls[l].ip) => ~apart(k, l)
C23_Witness ==
  /\ variant \in {"comments_js", "p3_admin"}
  /\ ended(1, "POST") /\ ended(2, "POST") /\ calls[1].ip = calls[2].ip
  /\ \E i, j \in DOMAIN kvIdx :
       /\ i # j /\ kvIdx[i] # kvIdx[j]
       /\ authorOf(kvC, kvIdx[i]) = ipHash(calls[1].ip)
       /\ authorOf(kvC, kvIdx[j]) = ipHash(calls[1].ip)

lastOf(ids) == SelectSeqBy([j \in 1..now |-> j], ids)
\* C24: two DeleteComment calls for different ids can both return success and
\* leave an index that holds a deleted id or lacks a surviving one, and they
\* do so only when their store calls interleave: after two deletions that ran
\* one after the other the index of comments.js is the old one without the
\* two ids, and the order of part_002 numbers the records that remain
C24_CorruptOnlyInterleaved ==
  (ended(1, "DELETE") /\ ended(2, "DELETE") /\ calls[1].id # calls[2].id /\ apart(1, 2)
     /\ alone(1, 2)) =>
     IF variant = "comments_js" THEN kvIdx = lastOf({calls[1].id, calls[2].id})
     ELSE /\ kvIdx = [j \in 1..(now - 2) |-> j]
          /\ DOMAIN kvC = 1..(now - 2)
          /\ \A i, j \in DOMAIN kvC : i < j => kvC[i].ts < kvC[j].ts
C24_Witness ==
  /\ variant = "comments_js"
  /\ ended(1, "DELETE") /\ ended(2, "DELETE") /\ calls[1].id # calls[2].id
  /\ \E k \in 1..MaxCalls : IndexOf(kvIdx, calls[k].id) > 0 /\ ~Has(kvC, calls[k].id)

\* C25: when a DeleteComment stopped after some of its store writes (and no
\* other call ran), a ListComments that follows answers without an error,
\* every item it returns has a stored record, and no comment is returned
\* under two ids
C25_PartialDeleteListed ==
  (/\ variant \in {"comments_js", "p2_compact"}
   /\ resp.op = "GET"
   /\ calls[1].op = "DELETE" /\ calls[1].pc = "done" /\ calls[1].code = "crashed"
   /\ alone(1, 1)) =>
     /\ "threw" \in DOMAIN resp => ~resp.threw
     /\ \A i \in DOMAIN resp.items : Has(kvC, resp.items[i].id)
     /\ \A i, j \in DOMAIN resp.items :
          (resp.items[i].ts = resp.items[j].ts /\ resp.items[i].text = resp.items[j].text) => i = j

\* C26: once a SubmitComment and a DeleteComment that ran concurrently have
\* both returned, every id of the index has a stored record
C26_IndexedIdsStored ==
  (/\ variant = "comments_js"
   /\ {calls[1].op, calls[2].op} = {"POST", "DELETE"}
   /\ \A k \in {1, 2} : calls[k].pc = "done" /\ calls[k].code # "crashed"
   /\ alone(1, 2)) =>
     \A i \in DOMAIN kvIdx : Has(kvC, kvIdx[i])

\* C27: when two SubmitComment calls of different identities have both
\* succeeded, however their store calls interleaved, the index holds both
\* comments under different ids and each record holds the text of its
\* submitter
C27_BothSubmissionsKept ==
  (/\ variant \in {"comments_js", "p2_compact"}
   /\ ended(1, "POST") /\ ended(2, "POST") /\ calls[1].ip # calls[2].ip
   /\ alone(1, 2)) =>
     /\ calls[1].id # calls[2].id
     /\ \A k \in {1, 2} :
          /\ IndexOf(kvIdx, calls[k].id) > 0
          /\ Has(kvC, calls[k].id)
          /\ kvC[calls[k].id].text = calls[k].item.text
          /\ kvC[calls[k].id].au = ipHash(calls[k].ip)

\* C28: once BAN_AT failed logins of one address have completed, with no
\* success and no expiry between them, the address is locked, also when the
\* reads and writes of the failure record of several calls interleave
C28_LockedAfterBanAt ==
  \A ip \in LoginClients :
    (loginVariant \in {"login_js", "p3_login"} /\ streak[ip] >= BAN_AT) =>
       IF loginVariant = "login_js" THEN banned(ip)
       ELSE inPenalty(recordOf(attempts, recordKey(ip)), clock)

\* the text and the creation time of the comments of an index, in its order
content(idx, c) ==
  [i \in DOMAIN idx |-> IF Has(c, idx[i]) THEN <<c[idx[i]].text, c[idx[i]].ts>> ELSE <<>>]

\* C29: the compaction of a DeleteComment keeps the content: the comments
\* that remain have the text and the creation time they had, in the order
\* they had; what changes is their id (and the label made from it)
C29_CompactionKeepsContent ==
  [][(variant \in {"p2_compact", "p1_first"} /\ resp'.op = "DELETE" /\ resp'.code = "ok") =>
       content(kvIdx', kvC') = content(SelectSeqBy(kvIdx, {resp'.id}), kvC)]_vars
C29_Witness ==
  /\ variant \in {"p2_compact", "p1_first"}
  /\ resp.op = "DELETE" /\ resp.code = "ok" /\ resp.id = 1
  /\ kvIdx = <<1>> /\ Has(kvC, 1) /\ kvC[1].ts = 2 /\ kvC[1].text = trimText(textOf(1))

\* C30: while the operator's secret is not configured or is empty, every
\* DeleteComment is answered Forbidden, whatever token it carries (none and
\* the empty one included), and no SubmitComment is treated as the operator's
C30_NoSecretNoOperator ==
  (variant \in {"comments_js", "p3_admin", "p2_compact", "p1_first"} /\ OwnerOrEmpty = "") =>
     /\ resp.op = "DELETE" => resp.code = "Forbidden"
     /\ (resp.op = "POST" /\ resp.code = "ok") =>
          /\ authorOf(kvC, resp.id) = ipHash(resp.ip)
          /\ Has(kvBy, ipHash(resp.ip))

\* C10 as stated: SubmitComment without the auth cookie and without the
\* operator token is answered Unauthenticated and writes nothing -- in
\* comments.js, part_003 and part_002 (here for requests that are otherwise
\* acceptable: JSON, text not blank)
C10_UnauthenticatedRejected ==
  [][ (/\ variant \in {"comments_js", "p3_admin", "p2_compact"}
       /\ resp'.op = "POST" /\ ~resp'.cookie /\ ~resp'.admin
       /\ resp'.json /\ ~resp'.blank) =>
        (resp'.code = "Unauthenticated" /\ store' = store) ]_vars
====
